---- MODULE Spec2Model ----
(***************************************************************************)
(* Model of the asio chat server (src/server/src/server.cpp) and chat      *)
(* client (src/client/src/client.cpp).                                     *)
(*                                                                         *)
(* The two executables are separate processes; the variable `program`      *)
(* says which of the two a behaviour is a run of.  Every completion        *)
(* handler of the reactor (io_service::run, one thread) is one action; the *)
(* outcome of the I/O it completes (error code, bytes read) is its input.  *)
(*                                                                         *)
(* ChatMessage (server/include/message.h) is not among the sources; its    *)
(* codec is modelled from the specification's section 4.1.                 *)
(***************************************************************************)
EXTENDS Integers, Sequences, FiniteSets, TLC

(***************************************************************************)
(* Bounds of the model.                                                    *)
(***************************************************************************)
\* session objects the acceptors may construct and complete an accept for
MaxSessions == 2
\* messages a process reads from its peers in one run of Spec
MaxDeliver == 2
\* actions (handlers run, calls of the console thread) in one run of Spec
MaxSteps == 10
\* messages delivered in one run of LongSpec (more than max_recent_msgs)
MaxLongDeliver == 102
\* lines the console thread of the client passes to write()
MaxLines == 3

\* the listening endpoints given on the command line, one ChatServer each
Servers == {1, 2}
Sessions == 1..MaxSessions

(***************************************************************************)
(* Frame codec (ChatMessage).                                              *)
(***************************************************************************)
header_length == 4
max_body_length == 512
max_recent_msgs == 100

Digits == <<"0", "1", "2", "3", "4", "5", "6", "7", "8", "9">>

RECURSIVE Decimal(_)
\* decimal text of n >= 0
Decimal(n) ==
  IF n < 10 THEN <<Digits[n + 1]>>
  ELSE Decimal(n \div 10) \o <<Digits[(n % 10) + 1]>>

RECURSIVE Pad(_, _)
Pad(txt, width) == IF Len(txt) >= width THEN txt ELSE Pad(<<" ">> \o txt, width)

\* the header of a body of b bytes: decimal text, right-justified in
\* header_length characters
encode_header(b) == Pad(Decimal(b), header_length)

DigitValue(c) == CHOOSE d \in 0..9 : Digits[d + 1] = c
IsDigit(c) == \E d \in 0..9 : Digits[d + 1] = c

RECURSIVE StripBlanks(_)
StripBlanks(txt) ==
  IF txt # <<>> /\ Head(txt) = " " THEN StripBlanks(Tail(txt)) ELSE txt

RECURSIVE Number(_)
Number(txt) ==
  IF txt = <<>> THEN 0
  ELSE 10 * Number(SubSeq(txt, 1, Len(txt) - 1)) + DigitValue(txt[Len(txt)])

\* decode_header: [ok, body_length]; fails on text that is no non-negative
\* integer and on a length above max_body_length
decode_header(hdr) ==
  LET txt == StripBlanks(hdr)
      numeric == txt # <<>> /\ \A i \in 1..Len(txt) : IsDigit(txt[i])
  IN IF numeric /\ Number(txt) <= max_body_length
     THEN [ok |-> TRUE, body_length |-> Number(txt)]
     ELSE [ok |-> FALSE, body_length |-> 0]

\* ChatMessage(): empty buffer, body_length 0
EmptyMessage == [header |-> <<>>, body |-> <<>>, body_length |-> 0]

\* no header on its way
NoCodec == [line_length |-> 0, header |-> <<>>, read |-> FALSE,
            ok |-> FALSE, body_length |-> 0]

\* header bytes a peer may send: a length of 1, text that is no number, a
\* length above max_body_length
HeaderInputs ==
  { encode_header(1), <<"a", "b", "c", "d">>,
    encode_header(max_body_length + 1) }

\* The chat lines the peers send are pairwise different, so that a lost, a
\* doubled and a misplaced message show: the k-th line that reaches the
\* server is the decimal text of k.
Line(k) == Decimal(k)

\* async_read into read_msg_.data() of header_length bytes, completed
ReadHeaderInto(msg, hdr) == [msg EXCEPT !.header = hdr]
\* async_read into read_msg_.body() of body_length bytes, completed: the
\* bytes of the buffer beyond body_length keep their old content
ReadBodyInto(msg, bytes) ==
  [msg EXCEPT !.body = bytes \o SubSeq(@, Len(bytes) + 1, Len(@))]

VARIABLES
  program,       \* "server" or "client": the executable this run is of
  participants,  \* ChatRoom::participants_ of each ChatServer's room_
  recent_msgs,   \* ChatRoom::recent_msgs_ of each ChatServer's room_
  accept_ops,    \* async_accept operations outstanding on each acceptor_
  sessions,      \* the ChatSession objects
  delivered,     \* history: every ChatRoom::deliver call of each room
  client,        \* the ChatClient object
  posted,        \* io_service task queue of the client (post)
  console,       \* the client's main thread
  steps,         \* history: actions taken so far
  codec          \* a header on its way from a client's main to a session

vars == <<program, participants, recent_msgs, accept_ops, sessions, delivered,
          client, posted, console, steps, codec>>

serverVars == <<participants, recent_msgs, accept_ops, sessions, delivered>>
clientVars == <<client, posted, console>>


(***************************************************************************)
(* Server: ChatSession and ChatRoom.                                       *)
(***************************************************************************)
\* A ChatSession object.  state, handed, sent, wire, failed, join_at,
\* join_hist, left_at and closes are history fields; the rest are the
\* members room_, read_msg_, write_msgs_, the state of socket_ and the
\* asynchronous operations outstanding on it.
NoSession ==
  [ state      |-> "unborn",   \* unborn, started, destroyed
    room       |-> 0,          \* the ChatServer whose room_ it refers to
    socket     |-> "none",     \* none, open, closed
    read_op    |-> "none",     \* the async_read outstanding: none, header, body
    read_msg   |-> EmptyMessage,
    write_msgs |-> <<>>,
    write_ops  |-> 0,          \* async_write operations outstanding
    handed     |-> <<>>,       \* every message passed to ChatSession::deliver
    sent       |-> <<>>,       \* every frame an async_write was started for
    wire       |-> <<>>,       \* every frame whose async_write completed well
    failed     |-> {},         \* the failures it had: read, header, write
    join_at    |-> 0,          \* deliveries of its room before it joined
    join_hist  |-> <<>>,       \* recent_msgs_ of its room when it joined
    left_at    |-> -1,         \* deliveries of its room before it left
    closes     |-> 0 ]         \* times socket_ was closed

\* The ChatClient object: the members read_msg_ and write_msgs_, the state
\* of socket_ and the asynchronous operations outstanding on it, and the
\* reactor thread t.  handed, sent, wire, output, failed and closes are
\* history fields.
NewClient ==
  [ socket     |-> "connecting", \* connecting, connected, refused, closed
    connect_op |-> TRUE,         \* the async_connect is outstanding
    read_op    |-> "none",
    read_msg   |-> EmptyMessage,
    write_msgs |-> <<>>,
    write_ops  |-> 0,
    read_dead  |-> FALSE,        \* the read outstanding was started on a dead socket
    write_dead |-> FALSE,        \* the send outstanding was started on a dead socket
    reactor    |-> "running",    \* io_service::run: running, returned
    handed     |-> <<>>,         \* every message passed to do_write
    sent       |-> <<>>,         \* every frame an async_write was started for
    wire       |-> <<>>,         \* every frame whose async_write completed well
    output     |-> <<>>,         \* every body written to std::cout
    failed     |-> {},           \* the failures it had: connect, read, header, write
    closes     |-> 0,            \* calls of socket_.close()
    at_close   |-> [sent |-> 0, reads |-> 0] ]
                                 \* sends and body reads started before the first
                                 \* socket_.close()

\* no ChatClient: the run is one of the server
NoClient ==
  [NewClient EXCEPT !.socket = "none", !.connect_op = FALSE, !.reactor = "none"]

\* faulty variant of ChatSession::deliver: the async_write is started whether or
\* not one is in progress
ChatSession_deliver_always_write(ses, msg) ==
  LET q == Append(ses.write_msgs, msg)
  IN [ses EXCEPT !.write_msgs = q,
                 !.handed = Append(@, msg),
                 !.write_ops = @ + 1,
                 !.sent = Append(@, Head(q))]

\* ChatSession::deliver
ChatSession_deliver(ses, msg) ==
  LET write_in_progress == ses.write_msgs # <<>>
      q == Append(ses.write_msgs, msg)
  IN [ses EXCEPT !.write_msgs = q,
                 !.handed = Append(@, msg),
                 !.write_ops = IF write_in_progress THEN @ ELSE @ + 1,
                 !.sent = IF write_in_progress THEN @ ELSE Append(@, Head(q))]

RECURSIVE ForEachDeliver(_, _)
\* std::for_each(msgs.begin(), msgs.end(), bind(deliver, participant, _1)):
\* deliver is applied to the messages one after the other, first to last.
\* The loop is evaluated by halves, and the session after the first half is
\* computed (the test on it) before the second half is applied to it, which
\* keeps the depth of the evaluation logarithmic in the length of msgs.
ForEachDeliver(ses, msgs) ==
  IF msgs = <<>> THEN ses
  ELSE IF Len(msgs) = 1 THEN ChatSession_deliver(ses, msgs[1])
  ELSE LET half == Len(msgs) \div 2
           first == ForEachDeliver(ses, SubSeq(msgs, 1, half))
       IN IF Len(first.handed) >= 0
          THEN ForEachDeliver(first, SubSeq(msgs, half + 1, Len(msgs)))
          ELSE first

Reverse(seq) == [i \in 1..Len(seq) |-> seq[Len(seq) + 1 - i]]

\* faulty variant of ChatRoom::join: the replay runs from rbegin() to rend()
ChatRoom_join_newest_first(ses, recent) == ForEachDeliver(ses, Reverse(recent))

\* ChatRoom::join, the effect on the joining participant: the replay of
\* recent_msgs_
ChatRoom_join(ses, recent) == ForEachDeliver(ses, recent)

RECURSIVE PopBackWhileOver(_)
\* faulty variant of the eviction loop: pop_back() in place of pop_front()
PopBackWhileOver(recent) ==
  IF Len(recent) > max_recent_msgs
  THEN PopBackWhileOver(SubSeq(recent, 1, Len(recent) - 1))
  ELSE recent

RECURSIVE PopWhileOver(_)
\* while (recent_msgs_.size() > max_recent_msgs) recent_msgs_.pop_front();
PopWhileOver(recent) ==
  IF Len(recent) > max_recent_msgs THEN PopWhileOver(Tail(recent)) ELSE recent

\* ChatRoom::deliver, the effect on recent_msgs_
ChatRoom_recent(recent, msg) == PopWhileOver(Append(recent, msg))

\* faulty variant of the broadcast: a participant with a send in progress is skipped
ChatRoom_broadcast_skip_busy(parts, ss, msg) ==
  [p \in Sessions |-> IF p \in parts /\ ss[p].write_msgs = <<>>
                      THEN ChatSession_deliver(ss[p], msg)
                      ELSE ss[p]]

\* faulty variant of the broadcast: the session whose read_msg_ is broadcast (the
\* sender) is skipped
ChatRoom_broadcast_no_echo(parts, ss, msg) ==
  [p \in Sessions |-> IF p \in parts /\ ss[p].read_msg # msg
                      THEN ChatSession_deliver(ss[p], msg)
                      ELSE ss[p]]

\* faulty variant of the broadcast: the room is shared by the ChatServers of the
\* process, every started session is a participant of it
ChatRoom_broadcast_process_wide(parts, ss, msg) ==
  [p \in Sessions |-> IF p \in parts \/ ss[p].state = "started"
                      THEN ChatSession_deliver(ss[p], msg)
                      ELSE ss[p]]

\* ChatRoom::deliver, the effect on the sessions: for_each over participants_
ChatRoom_broadcast(parts, ss, msg) ==
  [p \in Sessions |-> IF p \in parts THEN ChatSession_deliver(ss[p], msg)
                                     ELSE ss[p]]

\* faulty variant of ChatRoom::leave: participants_.clear() in place of erase
ChatRoom_leave_clear(parts, s) == {}

\* faulty variant of ChatRoom::leave: a participant that is absent is inserted
ChatRoom_leave_toggle(parts, s) ==
  IF s \in parts THEN parts \ {s} ELSE parts \cup {s}

\* ChatRoom::leave, the effect on participants_
ChatRoom_leave(parts, s) == parts \ {s}

\* faulty variant of ChatSession::handle_write: pop_front() before the test of the
\* error, so a frame whose send failed is removed too
ChatSession_handle_write_pop_first(ses, error) ==
  LET done == [ses EXCEPT !.write_ops = @ - 1, !.write_msgs = Tail(@)]
      q == done.write_msgs
  IN IF ~error
     THEN [done EXCEPT !.wire = Append(@, Head(ses.write_msgs)),
                       !.write_ops = IF q # <<>> THEN @ + 1 ELSE @,
                       !.sent = IF q # <<>> THEN Append(@, Head(q)) ELSE @]
     ELSE [done EXCEPT !.failed = @ \cup {"write"}]

\* faulty variant of ChatSession::handle_write: the front is popped and no
\* send is started for the next frame
ChatSession_handle_write_no_chain(ses, error) ==
  LET done == [ses EXCEPT !.write_ops = @ - 1]
  IN IF ~error
     THEN [done EXCEPT !.wire = Append(@, Head(ses.write_msgs)),
                       !.write_msgs = Tail(ses.write_msgs)]
     ELSE [done EXCEPT !.failed = @ \cup {"write"}]

\* ChatSession::handle_write, the effect on the session's own members
ChatSession_handle_write(ses, error) ==
  LET done == [ses EXCEPT !.write_ops = @ - 1]
  IN IF ~error
     THEN LET q == Tail(ses.write_msgs)
          IN [done EXCEPT !.wire = Append(@, Head(ses.write_msgs)),
                          !.write_msgs = q,
                          !.write_ops = IF q # <<>> THEN @ + 1 ELSE @,
                          !.sent = IF q # <<>> THEN Append(@, Head(q)) ELSE @]
     ELSE [done EXCEPT !.failed = @ \cup {"write"}]

\* The last shared_ptr to a session is dropped when it is in no room and no
\* handler bound to it is outstanding: ~ChatSession destroys read_msg_,
\* write_msgs_ and socket_, which closes the socket.  Of a destroyed session
\* only the history fields failed and closes are kept.
Release(ses, inRoom) ==
  IF ~inRoom /\ ses.read_op = "none" /\ ses.write_ops = 0
  THEN [NoSession EXCEPT !.state = "destroyed", !.room = ses.room,
                         !.socket = "closed", !.closes = ses.closes + 1,
                         !.failed = ses.failed]
  ELSE ses

\* history: the number of deliveries of its room at the moment s leaves it
NoteLeft(ses, s) ==
  IF s \in participants[ses.room]
  THEN [ses EXCEPT !.left_at = Len(delivered[ses.room])]
  ELSE ses

\* room_.leave(shared_from_this()) as the last statement of a handler of
\* session s whose members are now ses
Leave(s, ses) ==
  /\ participants' = [participants EXCEPT
                        ![ses.room] = ChatRoom_leave(@, s)]
  /\ sessions' = [sessions EXCEPT ![s] = Release(NoteLeft(ses, s), FALSE)]

Unborn == {s \in Sessions : sessions[s].state = "unborn"}
Started == {s \in Sessions : sessions[s].state = "started"}
\* the object a successful accept starts: the lowest unused identity
NewSession == CHOOSE s \in Unborn : \A t \in Unborn : s <= t

\* faulty variant of ChatSession::start: the header read is issued and
\* room_.join is not called
ChatSession_start_no_join(srv, s) ==
  LET born == [NoSession EXCEPT !.state = "started", !.room = srv,
                                !.socket = "open",
                                !.join_at = Len(delivered[srv]),
                                !.join_hist = recent_msgs[srv]]
  IN /\ participants' = participants
     /\ sessions' = [sessions EXCEPT ![s] = [born EXCEPT !.read_op = "header"]]

\* ChatSession::start of session s, constructed by ChatServer srv
ChatSession_start(srv, s) ==
  LET born == [NoSession EXCEPT !.state = "started", !.room = srv,
                                !.socket = "open",
                                !.join_at = Len(delivered[srv]),
                                !.join_hist = recent_msgs[srv]]
      joined == ChatRoom_join(born, recent_msgs[srv])
  IN /\ participants' = [participants EXCEPT ![srv] = @ \cup {s}]
     /\ sessions' = [sessions EXCEPT ![s] = [joined EXCEPT !.read_op = "header"]]

\* the session of a failed accept: handle_accept returns without starting
\* it and drops the last shared_ptr to it; its socket was never opened
ChatSession_dropped(srv, s) ==
  sessions' = [sessions EXCEPT ![s] =
                 [NoSession EXCEPT !.state = "destroyed", !.room = srv]]

\* faulty variant of ChatServer::handle_accept: it returns on an error,
\* before the start_accept
handle_accept_return_on_error(srv, error) ==
  /\ program = "server"
  /\ accept_ops[srv] > 0
  /\ Unborn # {}
  /\ IF ~error
     THEN /\ ChatSession_start(srv, NewSession)
          /\ accept_ops' = [accept_ops EXCEPT ![srv] = (@ - 1) + 1]
     ELSE /\ ChatSession_dropped(srv, NewSession)
          /\ accept_ops' = [accept_ops EXCEPT ![srv] = @ - 1]
          /\ UNCHANGED participants
  /\ steps' = steps + 1
  /\ UNCHANGED <<program, codec, recent_msgs, delivered, clientVars>>

\* ChatServer::handle_accept, with the start_accept it ends in.  The session
\* start_accept constructs has no state of its own until its accept
\* completes: it gets its identity then.
handle_accept(srv, error) ==
  /\ program = "server"
  /\ accept_ops[srv] > 0
  /\ Unborn # {}
  /\ IF ~error
     THEN ChatSession_start(srv, NewSession)
     ELSE /\ ChatSession_dropped(srv, NewSession)
          /\ UNCHANGED participants
  /\ accept_ops' = [accept_ops EXCEPT ![srv] = (@ - 1) + 1]
  /\ steps' = steps + 1
  /\ UNCHANGED <<program, codec, recent_msgs, delivered, clientVars>>

\* faulty variant of ChatSession::handle_read_header for a room and queues
\* that keep references to the read_msg_ of the sender in place of copies:
\* what is read into read_msg_ shows in every frame stored from it
handle_read_header_shared_buffer(s, error, hdr) ==
  /\ program = "server"
  /\ sessions[s].read_op = "header"
  /\ LET ses == sessions[s]
         msg == IF error THEN ses.read_msg ELSE ReadHeaderInto(ses.read_msg, hdr)
         dec == decode_header(msg.header)
         now == [msg EXCEPT !.body_length = dec.body_length]
         Alias(q) == [i \in 1..Len(q) |-> IF q[i] = ses.read_msg THEN now ELSE q[i]]
         Garbled(q) == [i \in 1..Len(q) |-> IF q[i] = ses.read_msg THEN msg ELSE q[i]]
     IN IF ~error /\ dec.ok
        THEN /\ sessions' = [t \in Sessions |->
                  IF t = s
                  THEN [ses EXCEPT !.read_msg = now, !.read_op = "body",
                                   !.write_msgs = Alias(@)]
                  ELSE [sessions[t] EXCEPT !.write_msgs = Alias(@)]]
             /\ recent_msgs' = [r \in Servers |-> Alias(recent_msgs[r])]
             /\ UNCHANGED participants
        ELSE /\ Leave(s, [ses EXCEPT !.read_msg = msg, !.read_op = "none",
                             !.failed = @ \cup {IF error THEN "read" ELSE "header"}])
             /\ recent_msgs' = [r \in Servers |-> Garbled(recent_msgs[r])]
  /\ steps' = steps + 1
  /\ UNCHANGED <<program, codec, accept_ops, delivered, clientVars>>

\* faulty variant of ChatSession::handle_read_header: the result of
\* decode_header is not tested
handle_read_header_no_decode(s, error, hdr) ==
  /\ program = "server"
  /\ sessions[s].read_op = "header"
  /\ LET ses == sessions[s]
         msg == IF error THEN ses.read_msg ELSE ReadHeaderInto(ses.read_msg, hdr)
         dec == decode_header(msg.header)
     IN IF ~error
        THEN /\ sessions' = [sessions EXCEPT ![s] =
                  [ses EXCEPT !.read_msg = [msg EXCEPT !.body_length = dec.body_length],
                              !.read_op = "body"]]
             /\ UNCHANGED participants
        ELSE Leave(s, [ses EXCEPT !.read_msg = msg, !.read_op = "none",
                          !.failed = @ \cup {"read"}])
  /\ steps' = steps + 1
  /\ UNCHANGED <<program, codec, recent_msgs, accept_ops, delivered,
                 clientVars>>

\* ChatSession::handle_read_header; hdr are the bytes the read put in
\* read_msg_ when it completed without error
handle_read_header(s, error, hdr) ==
  /\ program = "server"
  /\ sessions[s].read_op = "header"
  /\ LET ses == sessions[s]
         msg == IF error THEN ses.read_msg ELSE ReadHeaderInto(ses.read_msg, hdr)
         dec == decode_header(msg.header)
     IN IF ~error /\ dec.ok
        THEN /\ sessions' = [sessions EXCEPT ![s] =
                  [ses EXCEPT !.read_msg = [msg EXCEPT !.body_length = dec.body_length],
                              !.read_op = "body"]]
             /\ UNCHANGED participants
        ELSE Leave(s, [ses EXCEPT !.read_msg = msg, !.read_op = "none",
                          !.failed = @ \cup {IF error THEN "read" ELSE "header"}])
  /\ steps' = steps + 1
  /\ UNCHANGED <<program, codec, recent_msgs, accept_ops, delivered,
                 clientVars>>

\* ChatSession::handle_read_body; bytes are the body_length bytes the read
\* put in read_msg_ when it completed without error
handle_read_body(s, error, bytes) ==
  /\ program = "server"
  /\ sessions[s].read_op = "body"
  /\ Len(bytes) = sessions[s].read_msg.body_length
  /\ LET ses == sessions[s]
         room == ses.room
     IN IF ~error
        THEN LET msg == ReadBodyInto(ses.read_msg, bytes)
                 read == [sessions EXCEPT ![s] =
                            [ses EXCEPT !.read_msg = msg, !.read_op = "header"]]
             IN /\ recent_msgs' = [recent_msgs EXCEPT
                                     ![room] = ChatRoom_recent(@, msg)]
                /\ sessions' = ChatRoom_broadcast(participants[room], read, msg)
                /\ delivered' = [delivered EXCEPT
                                   ![room] = Append(@, msg)]
                /\ UNCHANGED participants
        ELSE /\ Leave(s, [ses EXCEPT !.read_op = "none",
                             !.failed = @ \cup {"read"}])
             /\ UNCHANGED <<recent_msgs, delivered>>
  /\ steps' = steps + 1
  /\ UNCHANGED <<program, codec, accept_ops, clientVars>>

\* ChatSession::handle_write
handle_write(s, error) ==
  /\ program = "server"
  /\ sessions[s].write_ops > 0
  /\ LET ses == ChatSession_handle_write(sessions[s], error)
     IN IF ~error
        THEN /\ sessions' = [sessions EXCEPT ![s] =
                               Release(ses, s \in participants[ses.room])]
             /\ UNCHANGED participants
        ELSE Leave(s, ses)
  /\ steps' = steps + 1
  /\ UNCHANGED <<program, codec, recent_msgs, accept_ops, delivered,
                 clientVars>>

\* the state of the server after main has constructed every ChatServer: an
\* empty room and one accept outstanding each
ServerInit ==
  /\ program = "server"
  /\ participants = [srv \in Servers |-> {}]
  /\ recent_msgs = [srv \in Servers |-> <<>>]
  /\ accept_ops = [srv \in Servers |-> 1]
  /\ sessions = [s \in Sessions |-> NoSession]
  /\ delivered = [srv \in Servers |-> <<>>]
  /\ client = NoClient
  /\ posted = <<>>
  /\ console = [state |-> "none", lines |-> 0]
  /\ steps = 0
  /\ codec = NoCodec

RECURSIVE SumLen(_, _)
SumLen(f, S) ==
  IF S = {} THEN 0
  ELSE LET x == CHOOSE y \in S : TRUE IN Len(f[x]) + SumLen(f, S \ {x})

\* deliveries so far, all rooms together
TotalDelivered == SumLen(delivered, Servers)

\* the actions of one run of Spec are at most MaxSteps
Budget == steps < MaxSteps

ServerNext ==
  \/ \E srv \in Servers, error \in BOOLEAN :
       Budget /\ handle_accept(srv, error)
  \/ \E s \in Sessions, error \in BOOLEAN, hdr \in HeaderInputs :
       Budget /\ handle_read_header(s, error, hdr)
  \/ \E s \in Sessions, error \in BOOLEAN :
       /\ Budget
       /\ error \/ TotalDelivered < MaxDeliver
       /\ handle_read_body(s, error, Line(TotalDelivered + 1))
  \/ \E s \in Sessions, error \in BOOLEAN :
       Budget /\ handle_write(s, error)

(***************************************************************************)
(* Client: ChatClient, the reactor thread and the console thread (main).   *)
(***************************************************************************)
\* a socket that was closed, or never connected: every operation started on
\* it fails
Dead(c) == c.socket \in {"closed", "refused"}

\* faulty variant of ChatClient::do_close: the socket stays open
ChatClient_do_close_keep_open(c) ==
  [c EXCEPT !.closes = @ + 1,
            !.at_close = IF c.closes = 0
                         THEN [sent  |-> Len(c.sent),
                               reads |-> Len(c.output) +
                                         (IF c.read_op = "body" THEN 1 ELSE 0)]
                         ELSE @]

\* ChatClient::do_close
ChatClient_do_close(c) ==
  [c EXCEPT !.socket = "closed", !.closes = @ + 1,
            !.at_close = IF c.closes = 0
                         THEN [sent  |-> Len(c.sent),
                               reads |-> Len(c.output) +
                                         (IF c.read_op = "body" THEN 1 ELSE 0)]
                         ELSE @]

\* ChatClient::do_write
ChatClient_do_write(c, msg) ==
  LET write_in_progress == c.write_msgs # <<>>
      q == Append(c.write_msgs, msg)
  IN [c EXCEPT !.write_msgs = q,
               !.handed = Append(@, msg),
               !.write_ops = IF write_in_progress THEN @ ELSE @ + 1,
               !.write_dead = IF write_in_progress THEN @ ELSE Dead(c),
               !.sent = IF write_in_progress THEN @ ELSE Append(@, Head(q))]

\* faulty variant of ChatClient::handle_write: the front is popped and no
\* send is started for the next frame
ChatClient_handle_write_no_chain(c, error) ==
  LET done == [c EXCEPT !.write_ops = @ - 1]
  IN IF ~error
     THEN [done EXCEPT !.wire = Append(@, Head(c.write_msgs)),
                       !.write_msgs = Tail(c.write_msgs),
                       !.write_dead = FALSE]
     ELSE [done EXCEPT !.failed = @ \cup {"write"}, !.write_dead = FALSE,
                       !.socket = "closed", !.closes = @ + 1]

\* ChatClient::handle_write
ChatClient_handle_write(c, error) ==
  LET done == [c EXCEPT !.write_ops = @ - 1]
  IN IF ~error
     THEN LET q == Tail(c.write_msgs)
          IN [done EXCEPT !.wire = Append(@, Head(c.write_msgs)),
                          !.write_msgs = q,
                          !.write_ops = IF q # <<>> THEN @ + 1 ELSE @,
                          !.write_dead = q # <<>> /\ Dead(c),
                          !.sent = IF q # <<>> THEN Append(@, Head(q)) ELSE @]
     ELSE ChatClient_do_close([done EXCEPT !.failed = @ \cup {"write"},
                                           !.write_dead = FALSE])

\* ChatClient::handle_connect
ChatClient_handle_connect(c, error) ==
  LET done == [c EXCEPT !.connect_op = FALSE]
  IN IF ~error
     THEN [done EXCEPT !.socket = "connected", !.read_op = "header",
                       !.read_dead = FALSE]
     ELSE [done EXCEPT !.failed = @ \cup {"connect"},
                       !.socket = IF @ = "closed" THEN @ ELSE "refused"]

\* ChatClient::handle_read_header
ChatClient_handle_read_header(c, error, hdr) ==
  LET msg == IF error THEN c.read_msg ELSE ReadHeaderInto(c.read_msg, hdr)
      dec == decode_header(msg.header)
  IN IF ~error /\ dec.ok
     THEN [c EXCEPT !.read_msg = [msg EXCEPT !.body_length = dec.body_length],
                    !.read_op = "body", !.read_dead = Dead(c)]
     ELSE ChatClient_do_close(
            [c EXCEPT !.read_msg = msg, !.read_op = "none", !.read_dead = FALSE,
                      !.failed = @ \cup {IF error THEN "read" ELSE "header"}])

\* ChatClient::handle_read_body
ChatClient_handle_read_body(c, error, bytes) ==
  IF ~error
  THEN LET msg == ReadBodyInto(c.read_msg, bytes)
       IN [c EXCEPT !.read_msg = msg, !.read_op = "header",
                    !.read_dead = Dead(c),
                    !.output = Append(@, SubSeq(msg.body, 1, msg.body_length))]
  ELSE ChatClient_do_close([c EXCEPT !.read_op = "none", !.read_dead = FALSE,
                                     !.failed = @ \cup {"read"}])

\* async_connect completes in error once the socket was closed (the
\* composed operation tests is_open() before it calls the handler).
Errors(c) == IF Dead(c) THEN {TRUE} ELSE BOOLEAN
\* A read or a send started on a dead socket completes in error.  One that
\* was started on a live socket completes either way, also after a close:
\* its completion may have been queued before do_close ran.
ReadErrors(c) == IF c.read_dead THEN {TRUE} ELSE BOOLEAN
WriteErrors(c) == IF c.write_dead THEN {TRUE} ELSE BOOLEAN

\* io_service::run returns, and the thread t ends, once no operation is
\* outstanding and no posted handler is queued
Settle(c, queue) ==
  IF ~c.connect_op /\ c.read_op = "none" /\ c.write_ops = 0 /\ queue = <<>>
  THEN [c EXCEPT !.reactor = "returned"]
  ELSE c

\* the reactor thread runs the completion handler of the connect
Client_handle_connect(error) ==
  /\ program = "client"
  /\ client.reactor = "running"
  /\ client.connect_op
  /\ client' = Settle(ChatClient_handle_connect(client, error), posted)
  /\ steps' = steps + 1
  /\ UNCHANGED <<program, codec, serverVars, posted, console>>

Client_handle_read_header(error, hdr) ==
  /\ program = "client"
  /\ client.reactor = "running"
  /\ client.read_op = "header"
  /\ client' = Settle(ChatClient_handle_read_header(client, error, hdr), posted)
  /\ steps' = steps + 1
  /\ UNCHANGED <<program, codec, serverVars, posted, console>>

Client_handle_read_body(error, bytes) ==
  /\ program = "client"
  /\ client.reactor = "running"
  /\ client.read_op = "body"
  /\ Len(bytes) = client.read_msg.body_length
  /\ client' = Settle(ChatClient_handle_read_body(client, error, bytes), posted)
  /\ steps' = steps + 1
  /\ UNCHANGED <<program, codec, serverVars, posted, console>>

Client_handle_write(error) ==
  /\ program = "client"
  /\ client.reactor = "running"
  /\ client.write_ops > 0
  /\ client' = Settle(ChatClient_handle_write(client, error), posted)
  /\ steps' = steps + 1
  /\ UNCHANGED <<program, codec, serverVars, posted, console>>

\* faulty variant of the task queue: the reactor thread runs the newest
\* posted handler first
Client_run_posted_newest_first ==
  /\ program = "client"
  /\ client.reactor = "running"
  /\ posted # <<>>
  /\ LET job == posted[Len(posted)]
         rest == SubSeq(posted, 1, Len(posted) - 1)
     IN /\ client' = Settle(IF job.task = "do_write"
                            THEN ChatClient_do_write(client, job.msg)
                            ELSE ChatClient_do_close(client),
                            rest)
        /\ posted' = rest
  /\ steps' = steps + 1
  /\ UNCHANGED <<program, codec, serverVars, console>>

\* the reactor thread runs the oldest handler passed to io_service::post
Client_run_posted ==
  /\ program = "client"
  /\ client.reactor = "running"
  /\ posted # <<>>
  /\ LET job == Head(posted)
     IN client' = Settle(IF job.task = "do_write"
                         THEN ChatClient_do_write(client, job.msg)
                         ELSE ChatClient_do_close(client),
                         Tail(posted))
  /\ posted' = Tail(posted)
  /\ steps' = steps + 1
  /\ UNCHANGED <<program, codec, serverVars, console>>

\* faulty variant of main: the header counts the line terminator too
LineMessage_with_terminator(line) ==
  [header |-> encode_header(Len(line) + 1), body |-> line,
   body_length |-> Len(line)]

\* main: the message of a console line
LineMessage(line) ==
  [header |-> encode_header(Len(line)), body |-> line, body_length |-> Len(line)]

\* ChatClient::write, called by main for the next console line
Console_write ==
  /\ program = "client"
  /\ console.state = "reading"
  /\ posted' = Append(posted, [task |-> "do_write",
                               msg |-> LineMessage(Line(console.lines + 1))])
  /\ console' = [console EXCEPT !.lines = @ + 1]
  /\ steps' = steps + 1
  /\ UNCHANGED <<program, codec, serverVars, client>>

\* ChatClient::close, called by main at the end of the console input
Console_close ==
  /\ program = "client"
  /\ console.state = "reading"
  /\ posted' = Append(posted, [task |-> "do_close", msg |-> EmptyMessage])
  /\ console' = [console EXCEPT !.state = "joining"]
  /\ steps' = steps + 1
  /\ UNCHANGED <<program, codec, serverVars, client>>

\* the state of the client after main has constructed the ChatClient and
\* started the reactor thread
ClientInit ==
  /\ program = "client"
  /\ participants = [srv \in Servers |-> {}]
  /\ recent_msgs = [srv \in Servers |-> <<>>]
  /\ accept_ops = [srv \in Servers |-> 0]
  /\ sessions = [s \in Sessions |-> NoSession]
  /\ delivered = [srv \in Servers |-> <<>>]
  /\ client = NewClient
  /\ posted = <<>>
  /\ console = [state |-> "reading", lines |-> 0]
  /\ steps = 0
  /\ codec = NoCodec

ClientNext ==
  \/ \E error \in Errors(client) :
       Budget /\ Client_handle_connect(error)
  \/ \E error \in ReadErrors(client), hdr \in HeaderInputs :
       Budget /\ Client_handle_read_header(error, hdr)
  \/ \E error \in ReadErrors(client) :
       /\ Budget
       /\ error \/ Len(client.output) < MaxDeliver
       /\ Client_handle_read_body(error, Line(Len(client.output) + 1))
  \/ \E error \in WriteErrors(client) :
       Budget /\ Client_handle_write(error)
  \/ Budget /\ Client_run_posted
  \/ Budget /\ console.lines < MaxLines /\ Console_write
  \/ Budget /\ Console_close

Init == ServerInit \/ ClientInit
Next == ServerNext \/ ClientNext
Spec == Init /\ [][Next]_vars

(***************************************************************************)
(* LongSpec: a long run of one room.  The first session ChatServer 1       *)
(* accepts sends MaxLongDeliver numbered lines; one more session joins at  *)
(* any moment.  No read fails, and the peers do not read: the sends stay   *)
(* outstanding.                                                            *)
(***************************************************************************)
LongNext ==
  \/ Cardinality(Started) < 2 /\ handle_accept(1, FALSE)
  \/ /\ Len(delivered[1]) < MaxLongDeliver
     /\ handle_read_header(1, FALSE,
                           encode_header(Len(Line(Len(delivered[1]) + 1))))
  \/ handle_read_body(1, FALSE, Line(Len(delivered[1]) + 1))

LongSpec == ServerInit /\ [][LongNext]_vars

(***************************************************************************)
(* LiveSpec: runs in which no send fails and the completion handler of an  *)
(* outstanding send is eventually run.  The sessions of one ChatServer     *)
(* read messages, or a header read of theirs fails; the client sends the   *)
(* console lines over a connection that stays up.  Everything but the      *)
(* completions of the sends stops within MaxSteps actions.                 *)
(***************************************************************************)
LiveNext ==
  \/ Budget /\ handle_accept(1, FALSE)
  \/ \E s \in Sessions, error \in BOOLEAN :
       Budget /\ handle_read_header(s, error, encode_header(1))
  \/ \E s \in Sessions :
       /\ Budget
       /\ TotalDelivered < MaxDeliver
       /\ handle_read_body(s, FALSE, Line(TotalDelivered + 1))
  \/ \E s \in Sessions : handle_write(s, FALSE)
  \/ Budget /\ Client_handle_connect(FALSE)
  \/ Client_handle_write(FALSE)
  \/ Budget /\ Client_run_posted
  \/ Budget /\ console.lines < MaxLines /\ Console_write

\* io_service::run runs the handler of every completed operation
LiveFairness ==
  /\ \A s \in Sessions : WF_vars(handle_write(s, FALSE))
  /\ WF_vars(Client_handle_write(FALSE))

LiveSpec == Init /\ [][LiveNext]_vars /\ LiveFairness

(***************************************************************************)
(* CodecSpec: the header of one frame, from the main of a client, which    *)
(* encodes the length of a console line, or from a corrupt peer, to the    *)
(* handle_read_header of a session, which decodes it.                      *)
(***************************************************************************)
\* a console line of n characters (getline reads at most max_body_length)
ConsoleLine(n) == [i \in 1..n |-> "x"]

\* headers of a corrupt peer: text with a character that is no digit and no
\* blank, and the lengths above max_body_length that fit the header
GarbledHeaders ==
  {h \in [1..header_length -> {" ", "7", "x"}] : \E i \in 1..header_length : h[i] = "x"}
  \cup {encode_header(b) : b \in (max_body_length + 1)..9999}

\* main: msg.body_length(strlen(line)); msg.encode_header()
Codec_encode(n) ==
  /\ program = "codec"
  /\ codec = NoCodec
  /\ codec' = [NoCodec EXCEPT !.line_length = n,
                               !.header = LineMessage(ConsoleLine(n)).header]
  /\ UNCHANGED <<program, serverVars, clientVars, steps>>

\* a header that no encode_header of a client produced
Codec_garble(hdr) ==
  /\ program = "codec"
  /\ codec = NoCodec
  /\ codec' = [NoCodec EXCEPT !.line_length = -1, !.header = hdr]
  /\ UNCHANGED <<program, serverVars, clientVars, steps>>

\* ChatSession::handle_read_header: read_msg_.decode_header() on the header
\* read
Codec_decode ==
  /\ program = "codec"
  /\ codec.header # <<>>
  /\ ~codec.read
  /\ LET msg == ReadHeaderInto(EmptyMessage, codec.header)
         dec == decode_header(msg.header)
     IN codec' = [codec EXCEPT !.read = TRUE, !.ok = dec.ok,
                               !.body_length = dec.body_length]
  /\ UNCHANGED <<program, serverVars, clientVars, steps>>

CodecInit ==
  /\ program = "codec"
  /\ participants = [srv \in Servers |-> {}]
  /\ recent_msgs = [srv \in Servers |-> <<>>]
  /\ accept_ops = [srv \in Servers |-> 0]
  /\ sessions = [s \in Sessions |-> NoSession]
  /\ delivered = [srv \in Servers |-> <<>>]
  /\ client = NoClient
  /\ posted = <<>>
  /\ console = [state |-> "none", lines |-> 0]
  /\ steps = 0
  /\ codec = NoCodec

CodecNext ==
  \/ \E n \in 0..max_body_length : Codec_encode(n)
  \/ \E hdr \in GarbledHeaders : Codec_garble(hdr)
  \/ Codec_decode

CodecSpec == CodecInit /\ [][CodecNext]_vars

(***************************************************************************)
(* Properties.                                                             *)
(***************************************************************************)
Last(seq) == seq[Len(seq)]
Min(a, b) == IF a <= b THEN a ELSE b
\* the last n elements of seq
LastN(seq, n) == SubSeq(seq, Len(seq) - n + 1, Len(seq))
\* seq is what is left of whole after some of its first elements are removed
IsSuffix(seq, whole) ==
  /\ Len(seq) <= Len(whole)
  /\ seq = SubSeq(whole, Len(whole) - Len(seq) + 1, Len(whole))
\* the deliveries of its room that session ses was a participant for
Attended(ses) ==
  SubSeq(delivered[ses.room], ses.join_at + 1,
         IF ses.left_at = -1 THEN Len(delivered[ses.room]) ELSE ses.left_at)

\* C1: a session that joins a room to which N <= max_recent_msgs messages
\* were delivered is handed exactly these N messages, in delivery order,
\* then the messages delivered after its join, and its outbound queue holds
\* them in that order.
C1_JoinReplaysHistory ==
  \A s \in Started :
    LET ses == sessions[s]
        N == ses.join_at
    IN N <= max_recent_msgs =>
         /\ ses.handed = SubSeq(delivered[ses.room], 1, N) \o Attended(ses)
         /\ IsSuffix(ses.write_msgs, ses.handed)

\* C1 witness: a session joined after exactly max_recent_msgs deliveries
\* and a message was delivered since; all of them are in its queue.
C1_Witness ==
  \E s \in Started :
    /\ sessions[s].join_at = max_recent_msgs
    /\ Len(sessions[s].write_msgs) > max_recent_msgs

\* C2: recent_msgs_ never holds more than max_recent_msgs messages and is
\* the last min(n, max_recent_msgs) of the n messages delivered, in delivery
\* order; a joining session is handed exactly these first.
C2_HistoryIsLastHundred ==
  /\ \A srv \in Servers :
       /\ Len(recent_msgs[srv]) <= max_recent_msgs
       /\ recent_msgs[srv] =
            LastN(delivered[srv], Min(Len(delivered[srv]), max_recent_msgs))
  /\ \A s \in Started :
       LET ses == sessions[s]
           n == Min(ses.join_at, max_recent_msgs)
       IN /\ Len(ses.handed) >= n
          /\ SubSeq(ses.handed, 1, n) =
               LastN(SubSeq(delivered[ses.room], 1, ses.join_at), n)

\* C2 witness: a session joined after max_recent_msgs + 1 deliveries and
\* was handed the messages 2 .. max_recent_msgs + 1.
C2_Witness ==
  \E s \in Started :
    /\ sessions[s].join_at = max_recent_msgs + 1
    /\ sessions[s].handed =
         SubSeq(delivered[sessions[s].room], 2, max_recent_msgs + 1)
    /\ sessions[s].handed[1].body = Line(2)

\* C3: what a session was handed is the recent history at its join followed
\* by every message delivered to its room from its join to its leave, in
\* delivery order.
C3_HandedInRoomOrder ==
  \A s \in Started :
    sessions[s].handed = sessions[s].join_hist \o Attended(sessions[s])

\* C3 witness: a session that joined to a non-empty history was handed a
\* later message too, while another session of its room has left it.
C3_Witness ==
  \E s, t \in Started :
    /\ s # t
    /\ sessions[s].room = sessions[t].room
    /\ sessions[s].join_hist # <<>>
    /\ Len(sessions[s].handed) > Len(sessions[s].join_hist)
    /\ sessions[t].left_at # -1

\* C4: ChatRoom::deliver(m) enqueues m exactly once on every session that is
\* in participants_ of the room at that moment, the sending session among
\* them, and on no other session.
C4_BroadcastToParticipants ==
  [][\A r \in Servers :
       delivered'[r] # delivered[r] =>
         LET m == Last(delivered'[r])
         IN \A s \in Sessions :
              IF s \in participants[r]
              THEN /\ sessions'[s].handed = Append(sessions[s].handed, m)
                   /\ sessions'[s].write_msgs = Append(sessions[s].write_msgs, m)
              ELSE /\ sessions'[s].handed = sessions[s].handed
                   /\ sessions'[s].write_msgs = sessions[s].write_msgs]_vars

\* C4 witness: the message a session has just read and passed to its room
\* is the newest in its own queue (the echo) and in the queue of another
\* participant.
C4_Witness ==
  \E r \in Servers : \E s, t \in participants[r] :
    /\ s # t
    /\ delivered[r] # <<>>
    /\ sessions[s].read_op = "header"
    /\ sessions[s].read_msg = Last(delivered[r])
    /\ sessions[s].write_msgs # <<>> /\ Last(sessions[s].write_msgs) = Last(delivered[r])
    /\ sessions[t].write_msgs # <<>> /\ Last(sessions[t].write_msgs) = Last(delivered[r])

\* C5: no connection, ChatSession or ChatClient, ever has more than one
\* async_write outstanding.
C5_OneSendInFlight ==
  /\ \A s \in Sessions : sessions[s].write_ops <= 1
  /\ client.write_ops <= 1

\* C5 witness: a frame was enqueued on the client while the send of an
\* earlier frame was outstanding.
C5_Witness ==
  /\ program = "client"
  /\ client.write_ops = 1
  /\ Len(client.write_msgs) >= 2

\* C6: while no send of a session has failed, the frames sent, followed by
\* its queue, are the frames enqueued, in their order; and a frame leaves
\* the queue of a live session only as the head whose send has just
\* completed without error.
C6_WireIsQueueOrder ==
  [][\A s \in Sessions :
       LET a == sessions[s]
           b == sessions'[s]
       IN /\ "write" \notin b.failed => b.wire \o b.write_msgs = b.handed
          /\ (b.state = "started" /\ Len(b.write_msgs) < Len(a.write_msgs)) =>
               /\ b.wire = Append(a.wire, Head(a.write_msgs))
               /\ b.write_msgs = Tail(a.write_msgs)
               /\ "write" \notin b.failed]_vars

\* C6 witness: a session with no failed send has sent its first frame and
\* has the next one in its queue.
C6_Witness ==
  \E s \in Started :
    /\ "write" \notin sessions[s].failed
    /\ Len(sessions[s].wire) >= 1
    /\ Len(sessions[s].write_msgs) >= 1
    /\ sessions[s].handed[1] = sessions[s].wire[1]
    /\ sessions[s].handed[2] = sessions[s].write_msgs[1]

\* C7 (as claimed): a session that has had a read failure, a write failure
\* or a malformed header is from then on in no room, starts no read and
\* passes no message to ChatRoom::deliver.
C7_FailedSessionStops ==
  [][\A s \in Sessions :
       sessions[s].failed # {} =>
         /\ \A r \in Servers : s \notin participants'[r]
         /\ sessions'[s].read_op \in {"none", sessions[s].read_op}
         /\ ~(sessions[s].read_op = "body" /\ sessions'[s].read_op = "header")]_vars

\* C8 (as claimed): once a session has had a read failure, a write failure
\* or a malformed header, no send is started for a frame of its queue, and
\* its socket is closed at most once.
C8_FailedSessionSendsNothing ==
  [][\A s \in Sessions :
       sessions[s].failed # {} =>
         /\ Len(sessions'[s].sent) <= Len(sessions[s].sent)
         /\ sessions'[s].closes <= 1]_vars

\* C9: the handler in which a session has a failure changes nothing of any
\* other session, of the membership of any other session, of recent_msgs_
\* and of the messages delivered; and a delivery appends the message to
\* recent_msgs_ and enqueues it on every participant, whatever failures
\* other sessions have had.
C9_FailureIsLocal ==
  [][/\ \A s \in Sessions :
          sessions'[s].failed # sessions[s].failed =>
            /\ \A t \in Sessions \ {s} :
                 /\ sessions'[t] = sessions[t]
                 /\ \A r \in Servers :
                      t \in participants'[r] <=> t \in participants[r]
            /\ recent_msgs' = recent_msgs
            /\ delivered' = delivered
     /\ \A r \in Servers :
          delivered'[r] # delivered[r] =>
            /\ recent_msgs'[r] # <<>>
            /\ Last(recent_msgs'[r]) = Last(delivered'[r])
            /\ \A t \in participants[r] :
                 /\ t \in participants'[r]
                 /\ Last(sessions'[t].write_msgs) = Last(delivered'[r])
                 /\ Len(sessions'[t].write_msgs) = Len(sessions[t].write_msgs) + 1]_vars

\* C9 witness: a send of one session failed and it left the room; a message
\* delivered afterwards is in the queue of another participant of the room.
C9_Witness ==
  \E s, t \in Started :
    /\ s # t
    /\ sessions[s].room = sessions[t].room
    /\ "write" \in sessions[s].failed
    /\ sessions[s].left_at # -1
    /\ sessions[s].left_at < Len(delivered[sessions[s].room])
    /\ t \in participants[sessions[t].room]
    /\ sessions[t].write_msgs # <<>>
    /\ Last(sessions[t].write_msgs) = Last(delivered[sessions[t].room])

\* C10 (as claimed): the process has one room: a message a session has read
\* is handed to every session that is joined, whichever ChatServer accepted
\* it.
C10_OneRoomPerProcess ==
  [][\A r \in Servers :
       delivered'[r] # delivered[r] =>
         \A r2 \in Servers : \A t \in participants[r2] :
           sessions'[t].handed = Append(sessions[t].handed, Last(delivered'[r]))]_vars

\* C10 (amended): every ChatServer has a room of its own: a message a
\* session has read is delivered to the room of the ChatServer that accepted
\* the session, handed to the participants of that room and to no session
\* of another room.
C10_OneRoomPerServer ==
  [][/\ \A r \in Servers : \A t \in participants'[r] : sessions'[t].room = r
     /\ \A s \in Sessions :
          (sessions[s].read_op = "body" /\ sessions'[s].read_op = "header") =>
            LET r == sessions[s].room
            IN /\ delivered'[r] = Append(delivered[r], sessions'[s].read_msg)
               /\ \A r2 \in Servers \ {r} :
                    /\ delivered'[r2] = delivered[r2]
                    /\ recent_msgs'[r2] = recent_msgs[r2]
               /\ \A t \in Sessions :
                    IF t \in participants[r]
                    THEN sessions'[t].handed =
                           Append(sessions[t].handed, sessions'[s].read_msg)
                    ELSE sessions'[t].handed = sessions[t].handed]_vars

\* C10 witness: a session that has been in the room of one ChatServer since
\* before line 1 was delivered there was not handed line 2, delivered to the
\* room of another ChatServer.
C10_Witness ==
  \E s, t \in Started :
    LET rs == sessions[s].room
        rt == sessions[t].room
    IN /\ rs # rt
       /\ s \in participants[rs]
       /\ t \in participants[rt]
       /\ sessions[t].join_at = 0
       /\ delivered[rt] # <<>> /\ delivered[rt][1].body = Line(1)
       /\ delivered[rs] # <<>> /\ Last(delivered[rs]).body = Line(2)
       /\ sessions[t].handed = delivered[rt]
       /\ \A i \in 1..Len(sessions[t].handed) :
            sessions[t].handed[i].body # Line(2)
\* C11: every completion of an accept, successful or failed, leaves one
\* accept outstanding on the acceptor; a failed accept starts no session
\* and changes no room; a successful one starts exactly one session, makes
\* it a participant of the room of its ChatServer and changes nothing else.
C11_AcceptContinues ==
  [][program = "server" =>
       /\ \A srv \in Servers : accept_ops'[srv] = 1
       /\ \A s \in Sessions :
            (sessions[s].state = "unborn" /\ sessions'[s].state # "unborn") =>
              LET srv == sessions'[s].room
              IN /\ srv \in Servers
                 /\ \A t \in Sessions \ {s} : sessions'[t] = sessions[t]
                 /\ recent_msgs' = recent_msgs
                 /\ delivered' = delivered
                 /\ IF sessions'[s].state = "started"
                    THEN /\ participants' =
                              [participants EXCEPT ![srv] = @ \cup {s}]
                         /\ sessions'[s].read_op = "header"
                    ELSE /\ participants' = participants
                         /\ sessions'[s].state = "destroyed"
                         /\ sessions'[s].read_op = "none"
                         /\ sessions'[s].handed = <<>>]_vars

\* C11 witness: an accept of a ChatServer failed, and the next accept of
\* the same ChatServer started a session.
C11_Witness ==
  \E s, t \in Sessions :
    /\ s < t
    /\ sessions[s].state = "destroyed" /\ sessions[s].socket = "none"
    /\ sessions[t].state = "started"
    /\ sessions[t].room = sessions[s].room
    /\ t \in participants[sessions[t].room]
    /\ accept_ops[sessions[t].room] = 1
\* the step of a read state machine from the outstanding read a to the
\* outstanding read b, of a connection whose buffer is msg after the step
\* and which had the failures f before and g after it
ReadStep(a, b, msg, f, g) ==
  /\ a = "header" /\ b = "body" =>
       /\ decode_header(msg.header).ok
       /\ msg.body_length = decode_header(msg.header).body_length
       /\ g = f
  /\ a = "header" /\ "header" \in g \ f =>
       b = "none" /\ ~decode_header(msg.header).ok
  /\ a = "header" => b \in {"header", "body", "none"}
  /\ a = "body" => b \in {"body", "header", "none"}
  /\ b = "none" /\ a # "none" => g # f
  /\ a = "body" /\ b = "header" => g = f

\* C12: the reads of a session and of the client alternate header, body,
\* header, ...: a body read is started only by the completion of a header
\* read whose header decodes, for the decoded body_length; a header that
\* does not decode ends the reads with no body read (the session leaves the
\* room, the client closes its socket); reads once ended are never started
\* again; and a message is passed to ChatRoom::deliver, or written to the
\* output of the client, exactly in the steps in which a body read
\* completes without error, once.
C12_ReadsAlternate ==
  [][/\ \A s \in Sessions :
          LET a == sessions[s] b == sessions'[s]
          IN /\ a.state = "started" =>
                  /\ ReadStep(a.read_op, b.read_op, b.read_msg, a.failed, b.failed)
                  /\ a.read_op = "none" => b.read_op = "none"
                  /\ "header" \in b.failed \ a.failed =>
                       \A r \in Servers : s \notin participants'[r]
                  /\ (a.read_op = "body" /\ b.read_op = "header") =>
                       delivered'[a.room] = Append(delivered[a.room], b.read_msg)
             /\ a.state = "destroyed" => b.read_op = "none"
     /\ \A r \in Servers :
          delivered'[r] # delivered[r] =>
            Cardinality({s \in Sessions :
                           /\ sessions[s].room = r
                           /\ sessions[s].read_op = "body"
                           /\ sessions'[s].read_op = "header"}) = 1
     /\ LET a == client b == client'
        IN /\ ReadStep(a.read_op, b.read_op, b.read_msg, a.failed, b.failed)
           /\ (a.read_op = "none" /\ ~a.connect_op) => b.read_op = "none"
           /\ "header" \in b.failed \ a.failed => b.socket = "closed"
           /\ IF a.read_op = "body" /\ b.read_op = "header"
              THEN b.output = Append(a.output,
                                     SubSeq(b.read_msg.body, 1,
                                            b.read_msg.body_length))
              ELSE b.output = a.output]_vars

\* C12 witness: a room got two messages, each by a header read and a body
\* read, and a session got a header that does not decode.
C12_Witness ==
  /\ \E r \in Servers : Len(delivered[r]) = 2
  /\ \E s \in Sessions : "header" \in sessions[s].failed
\* C13: the handler that starts a session makes it a participant and queues
\* the replay of recent_msgs_ on it before it issues the session's first
\* header read; a session that is not started has no read outstanding; so
\* every message a session reads is delivered to the room after the session
\* joined, and is handed to the session after the replayed history.
C13_JoinBeforeFirstRead ==
  [][\A s \in Sessions :
       LET a == sessions[s] b == sessions'[s]
       IN /\ a.state = "unborn" => a.read_op = "none"
          /\ (a.state = "unborn" /\ b.read_op # "none") =>
               /\ b.state = "started"
               /\ s \in participants'[b.room]
               /\ b.read_op = "header"
               /\ b.handed = recent_msgs[b.room]
               /\ b.write_msgs = recent_msgs[b.room]
               /\ b.join_hist = recent_msgs[b.room]
               /\ b.join_at = Len(delivered[b.room])
          /\ (a.state = "started" /\ a.read_op = "body" /\ b.read_op = "header") =>
               /\ Len(delivered[a.room]) >= a.join_at
               /\ s \in participants[a.room] =>
                    /\ b.handed = Append(a.handed, b.read_msg)
                    /\ Len(a.handed) >= Len(a.join_hist)
                    /\ SubSeq(b.handed, 1, Len(a.join_hist)) = a.join_hist]_vars

\* C13 witness: a session that joined after one message was delivered has
\* then read a message itself: it was handed the replayed message first and
\* its own message second.
C13_Witness ==
  \E t \in Started :
    LET ses == sessions[t]
    IN /\ ses.join_at = 1
       /\ Len(ses.join_hist) = 1
       /\ Len(ses.handed) = 2
       /\ ses.handed[1] = ses.join_hist[1]
       /\ ses.handed[2] = ses.read_msg
       /\ ses.handed[2] = delivered[ses.room][2]
\* C14: ChatRoom::leave removes the participant and is idempotent: applied
\* to a set that does not hold p it returns the set, so applied twice it
\* gives what it gives applied once; and the handler that makes the second
\* leave of a session (its read and its write both failed) changes no
\* participant set, no recent_msgs_ and no other session.
C14_LeaveIdempotent ==
  [][/\ \A r \in Servers : \A p \in Sessions :
          LET P == participants[r]
          IN /\ ChatRoom_leave(P, p) = P \ {p}
             /\ ChatRoom_leave(ChatRoom_leave(P, p), p) = ChatRoom_leave(P, p)
             /\ p \notin P => ChatRoom_leave(P, p) = P
     /\ \A s \in Sessions :
          sessions'[s].failed # sessions[s].failed =>
            LET r == sessions[s].room
            IN /\ participants' = [participants EXCEPT ![r] = @ \ {s}]
               /\ s \notin participants[r] =>
                    /\ participants' = participants
                    /\ recent_msgs' = recent_msgs
                    /\ \A t \in Sessions \ {s} : sessions'[t] = sessions[t]]_vars

\* C14 witness: a session whose write and whose read both failed has left
\* twice, and another session is still a participant with its queue.
C14_Witness ==
  \E s, t \in Sessions :
    /\ s # t
    /\ "write" \in sessions[s].failed
    /\ sessions[s].failed \cap {"read", "header"} # {}
    /\ sessions[t].state = "started"
    /\ t \in participants[sessions[t].room]
    /\ sessions[t].room = sessions[s].room
    /\ sessions[t].write_msgs # <<>>
\* C15: on the client the console thread changes nothing of the ChatClient
\* (write and close only post a handler); the frames do_write gets are the
\* frames passed to write(), in the order of the calls; the frames sent are
\* the first of them, in that order, each once; and at most one send is
\* outstanding.
C15_ClientWritesInOrder ==
  [][program = "client" =>
       /\ console' # console => client' = client
       /\ client' # client => console' = console /\ steps' = steps + 1
       /\ Len(client'.handed) <= console'.lines
       /\ \A i \in 1..Len(client'.handed) :
            client'.handed[i] = LineMessage(Line(i))
       /\ Len(client'.wire) <= Len(client'.handed)
       /\ client'.wire = SubSeq(client'.handed, 1, Len(client'.wire))
       /\ client'.sent = SubSeq(client'.handed, 1, Len(client'.sent))
       /\ client'.write_ops <= 1]_vars

\* C15 witness: three frames were passed to write() and all three were
\* sent, the first first and the third last.
C15_Witness ==
  /\ program = "client"
  /\ console.lines = 3
  /\ Len(client.wire) = 3
  /\ client.wire[1] = LineMessage(Line(1))
  /\ client.wire[2] = LineMessage(Line(2))
  /\ client.wire[3] = LineMessage(Line(3))
\* C16 (as claimed): once do_close has run, the client starts no read and
\* no send.
C16_ClosedClientStartsNothing ==
  [][client.closes > 0 =>
       /\ Len(client'.sent) = Len(client.sent)
       /\ client'.read_op \in {"none", client.read_op}]_vars

\* C16 (amended): once do_close has run, nothing more is transferred: the
\* only send that may still complete well and the only body read that may
\* still reach the output are the ones outstanding when the socket was
\* closed; every send and every read started after the close is one on a
\* closed socket, and completes in error.
C16_ClosedClientTransfersNothing ==
  client.closes > 0 =>
    /\ client.socket = "closed"
    /\ Len(client.wire) <= client.at_close.sent
    /\ Len(client.output) <= client.at_close.reads
    /\ (client.write_ops > 0 /\ Len(client.sent) > client.at_close.sent) =>
         client.write_dead
    /\ (client.read_op = "body" /\ Len(client.output) >= client.at_close.reads) =>
         client.read_dead

\* C16 witness: after do_close ran, a write() made do_write start a send
\* on the closed socket, and that send failed.
C16_Witness ==
  /\ client.closes >= 2
  /\ Len(client.sent) > client.at_close.sent
  /\ Len(client.wire) < Len(client.sent)
  /\ client.write_ops = 0
  /\ "write" \in client.failed
\* C17: the header that encode_header produces for a body of b bytes,
\* 0 <= b <= max_body_length, is header_length characters long and decodes,
\* to b; a header with a character that is no digit, and a header with a
\* length above max_body_length, do not decode.
C17_HeaderRoundTrip ==
  /\ Len(codec.header) \in {0, header_length}
  /\ codec.read =>
       IF codec.line_length >= 0
       THEN codec.ok /\ codec.body_length = codec.line_length
       ELSE ~codec.ok

\* C17 witness: the header of a line of max_body_length characters was
\* decoded.
C17_Witness ==
  /\ codec.read
  /\ codec.line_length = max_body_length
  /\ codec.ok
  /\ codec.body_length = max_body_length
\* C18 (as claimed): on every connection, in every state, a send is
\* outstanding exactly when the outbound queue is not empty.
C18_SendIffQueued ==
  /\ \A s \in Sessions :
       sessions[s].write_ops > 0 <=> sessions[s].write_msgs # <<>>
  /\ client.write_ops > 0 <=> client.write_msgs # <<>>

\* C18 (amended): on a connection none of whose sends has failed, one send
\* is outstanding exactly when the outbound queue is not empty, and it is
\* the send of the front of the queue.  Once a send has failed, no send is
\* outstanding and the frame that failed stays at the front of the queue;
\* the session is then in no room, the client's socket is closed.
C18_SendIffQueuedUntilFailure ==
  /\ \A s \in Started :
       LET ses == sessions[s]
       IN IF "write" \notin ses.failed
          THEN /\ ses.write_ops = (IF ses.write_msgs # <<>> THEN 1 ELSE 0)
               /\ ses.write_msgs # <<>> => Head(ses.write_msgs) = Last(ses.sent)
          ELSE /\ ses.write_ops = 0
               /\ ses.write_msgs # <<>>
               /\ Head(ses.write_msgs) = Last(ses.sent)
               /\ s \notin participants[ses.room]
  /\ IF "write" \notin client.failed
     THEN /\ client.write_ops = (IF client.write_msgs # <<>> THEN 1 ELSE 0)
          /\ client.write_msgs # <<>> => Head(client.write_msgs) = Last(client.sent)
     ELSE /\ client.write_ops = 0
          /\ client.write_msgs # <<>>
          /\ Head(client.write_msgs) = Last(client.sent)
          /\ client.socket = "closed"

\* C18 witness: a session none of whose sends failed has completed a send
\* and has the send of the next frame of its queue outstanding.
C18_Witness ==
  \E s \in Started :
    /\ "write" \notin sessions[s].failed
    /\ Len(sessions[s].wire) = 1
    /\ Len(sessions[s].write_msgs) = 1
    /\ sessions[s].write_ops = 1
    /\ Len(sessions[s].sent) = 2
\* what a step may do to a stored sequence of frames: nothing, append one
\* frame, remove the first, or both; the frames that stay keep their content
StoredStep(old, new) ==
  \/ new = old
  \/ old # <<>> /\ new = Tail(old)
  \/ new # <<>> /\ SubSeq(new, 1, Len(new) - 1) = old
  \/ old # <<>> /\ new # <<>> /\ SubSeq(new, 1, Len(new) - 1) = Tail(old)

\* C19: the frames in recent_msgs_ and in the outbound queues are copies:
\* no step changes the content of a frame that stays stored, in particular
\* not a read into the read_msg_ of the session that sent it nor a later
\* deliver; every stored frame is the message as it was when it was
\* delivered.
C19_StoredFramesAreCopies ==
  [][/\ \A r \in Servers :
          /\ StoredStep(recent_msgs[r], recent_msgs'[r])
          /\ IsSuffix(recent_msgs'[r], delivered'[r])
     /\ \A s \in Sessions :
          LET a == sessions[s] b == sessions'[s]
          IN /\ b.state = "started" /\ a.state = "started" =>
                  StoredStep(a.write_msgs, b.write_msgs)
             /\ (sessions[s].state = "started" =>
                   /\ IsSuffix(sessions[s].write_msgs, sessions[s].handed)
                   /\ sessions[s].handed =
                        sessions[s].join_hist \o Attended(sessions[s]))'
             /\ b.read_msg # a.read_msg /\ b.state = "started" /\ a.state = "started" =>
                  /\ recent_msgs'[a.room] \in
                       {recent_msgs[a.room], Append(recent_msgs[a.room], b.read_msg)}
                  /\ \A t \in Sessions :
                       sessions'[t].write_msgs \in
                         {sessions[t].write_msgs,
                          Append(sessions[t].write_msgs, b.read_msg)}]_vars

\* C19 witness: a session has read two messages into its read_msg_, which
\* now holds the second; the first is still in recent_msgs_ and in the
\* session's queue, as it was delivered.
C19_Witness ==
  \E s \in Started :
    LET ses == sessions[s]
    IN /\ Len(delivered[ses.room]) = 2
       /\ ses.read_msg = delivered[ses.room][2]
       /\ ses.read_msg # delivered[ses.room][1]
       /\ ses.read_op = "body"
       /\ recent_msgs[ses.room][1] = delivered[ses.room][1]
       /\ Len(ses.write_msgs) = 2
       /\ ses.write_msgs[1] = delivered[ses.room][1]
       /\ delivered[ses.room][1].body = Line(1)
\* every frame enqueued so far has been transmitted and the queue is empty,
\* on every connection (a session is destroyed only with an empty queue and
\* no send outstanding)
Drained ==
  /\ \A s \in Sessions :
       /\ sessions[s].write_msgs = <<>>
       /\ sessions[s].write_ops = 0
       /\ sessions[s].state = "started" => sessions[s].wire = sessions[s].handed
  /\ client.write_msgs = <<>>
  /\ client.write_ops = 0
  /\ client.wire = client.handed

\* C20: when no send fails and the handler of each completed send is
\* eventually run, then, once no further frame is enqueued, every frame
\* enqueued on a connection is eventually transmitted and every outbound
\* queue is eventually empty, and stays so.
C20_QueueDrains == <>[]Drained

\* C20 witness: two frames were enqueued on a session, both have been
\* transmitted and its queue is empty.
C20_Witness ==
  \E s \in Started :
    /\ Len(sessions[s].handed) = 2
    /\ sessions[s].wire = sessions[s].handed
    /\ sessions[s].write_msgs = <<>>
    /\ sessions[s].write_ops = 0
====
